---- MODULE Spec2Model ----
(***************************************************************************)
(* Model of sdks/js/src/managers/user.js: BaseUsersManager (validation and *)
(* delegation to the injected apiClient) and UsersManager (the async       *)
(* facade over it).  JavaScript values are tagged records; a promise is a  *)
(* record [kind, value]; every call of a public method is one entry of     *)
(* `calls`, which records what the call did to the collaborator, what the  *)
(* base method delivered to the public method and what the public method   *)
(* delivered to its caller.                                                *)
(***************************************************************************)
EXTENDS Integers, Sequences, FiniteSets, TLC

VARIABLES apiClient, calls

vars == <<apiClient, calls>>

\* Number of calls issued in one behaviour (they may all be outstanding at once).
MaxCalls == 2

-----------------------------------------------------------------------------
\* JavaScript values

Undefined == [t |-> "undefined"]
Null == [t |-> "null"]
Str(cs) == [t |-> "string", cs |-> cs]
Num(n) == [t |-> "number", n |-> n]
Arr(elems) == [t |-> "array", elems |-> elems]
Obj(props) == [t |-> "object", props |-> props]
Err(message) == [t |-> "error", message |-> message]

NoProps == [k \in {} |-> Undefined]

\* o.k : a property that is not there reads as undefined
Prop(o, k) == IF k \in DOMAIN o.props THEN o.props[k] ELSE Undefined

\* `x = d` in a parameter list or a destructuring pattern: the default is
\* taken when the value is undefined, and only then
Default(v, d) == IF v = Undefined THEN d ELSE v

\* Destructuring `{ a, b }` of v throws a TypeError when v is undefined or null
Destructurable(v) == v # Undefined /\ v # Null

TypeError == Err("TypeError")
InvalidIdError == Err("id must be a valid UUID v4")

DefaultLimit == 100
DefaultOffset == 0

-----------------------------------------------------------------------------
\* Promises and the outcome of the synchronous part of a method

Nothing == [kind |-> "none", value |-> Undefined]
Pending == [kind |-> "pending", value |-> Undefined]
Resolved(v) == [kind |-> "resolved", value |-> v]
Rejected(e) == [kind |-> "rejected", value |-> e]
Thrown(e) == [kind |-> "thrown", value |-> e]

\* the method threw before reaching the collaborator
Throw(layer, e) == [kind |-> "throw", layer |-> layer, error |-> e]
\* the method called this.apiClient.<method>(args) and returned its promise
\* with the catch handler attached
Delegate(method, args) == [kind |-> "delegate", method |-> method, args |-> args]

-----------------------------------------------------------------------------
\* ./utils isValidUuid4 and ../api/serialization/types CreateDoc

HexDigits ==
  {"0","1","2","3","4","5","6","7","8","9",
   "a","b","c","d","e","f","A","B","C","D","E","F"}

isValidUuid4(v) ==
  /\ v.t = "string"
  /\ Len(v.cs) = 36
  /\ \A i \in 1..36 :
       IF i \in {9, 14, 19, 24} THEN v.cs[i] = "-" ELSE v.cs[i] \in HexDigits
  /\ v.cs[15] = "4"
  /\ v.cs[20] \in {"8", "9", "a", "b", "A", "B"}

CreateDoc(doc) == [t |-> "CreateDoc", doc |-> doc]


-----------------------------------------------------------------------------
\* BaseUsersManager: the synchronous part of each method

\* _get behind a single-flight guard kept in the manager: a call made while
\* another one is outstanding is refused
_get_singleFlight(id) ==
  IF \E c \in 1..Len(calls) : calls[c].result.kind = "pending"
    THEN Throw("base", Err("busy"))
    ELSE IF ~isValidUuid4(id)
           THEN Throw("base", InvalidIdError)
           ELSE Delegate("getUser", <<id>>)

_get(id) ==
  IF ~isValidUuid4(id)
    THEN Throw("base", InvalidIdError)
    ELSE Delegate("getUser", <<id>>)

\* _create that forwards the documents as given, without preparing them
_create_unprepared(name, about, docs) ==
  Delegate("createUser",
           <<Obj([name |-> name, about |-> about,
                  docsPrepared |-> Default(docs, Arr(<<>>))])>>)

_create(name, about, docs) ==
  LET ds == Default(docs, Arr(<<>>))
      docsPrepared == Arr([i \in 1..Len(ds.elems) |-> CreateDoc(ds.elems[i])])
  IN  Delegate("createUser",
               <<Obj([name |-> name, about |-> about, docsPrepared |-> docsPrepared])>>)

_listItems(limit, offset) == Delegate("listUsers", <<limit, offset>>)

\* _delete without the identifier check
_delete_unchecked(userId) == Delegate("deleteUser", <<userId>>)

_delete(userId) ==
  IF ~isValidUuid4(userId)
    THEN Throw("base", InvalidIdError)
    ELSE Delegate("deleteUser", <<userId>>)

\* _update with the two payload fields exchanged
_update_swapped(userId, about, name) ==
  IF ~isValidUuid4(userId)
    THEN Throw("base", InvalidIdError)
    ELSE Delegate("updateUser", <<userId, Obj([about |-> name, name |-> about])>>)

_update(userId, about, name) ==
  IF ~isValidUuid4(userId)
    THEN Throw("base", InvalidIdError)
    ELSE Delegate("updateUser", <<userId, Obj([about |-> about, name |-> name])>>)

\* a catch handler that swallows the error
catchHandler_swallow(error) == Resolved(Undefined)

\* .catch((error) => Promise.reject(error))
catchHandler(error) == Rejected(error)

\* p.catch(handler): a fulfilled promise passes through, a rejected one is
\* settled by what the handler returns
catch(p) == IF p.kind = "rejected" THEN catchHandler(p.value) ELSE p

-----------------------------------------------------------------------------
\* UsersManager: the synchronous part of each async method (up to its await)
\* and the rest of the method once the awaited promise has settled

\* a method that is not async: an exception of its body leaves the call
asyncResult_plain(completion) == completion

\* an async function turns an exception of its body into a rejection of the
\* promise it returns
asyncResult(completion) ==
  IF completion.kind = "thrown" THEN Rejected(completion.value) ELSE completion

getCall(id) == _get(id)

createCall(params) ==
  IF ~Destructurable(params)
    THEN Throw("public", TypeError)
    ELSE _create(Prop(params, "name"), Prop(params, "about"),
                 Default(Prop(params, "docs"), Arr(<<>>)))

\* list with the two pagination arguments in the wrong order
listCall_swapped(params) ==
  LET p == Default(params, Obj(NoProps))
  IN  IF ~Destructurable(p)
        THEN Throw("public", TypeError)
        ELSE _listItems(Default(Prop(p, "offset"), Num(DefaultOffset)),
                        Default(Prop(p, "limit"), Num(DefaultLimit)))

listCall(params) ==
  LET p == Default(params, Obj(NoProps))
  IN  IF ~Destructurable(p)
        THEN Throw("public", TypeError)
        ELSE _listItems(Default(Prop(p, "limit"), Num(DefaultLimit)),
                        Default(Prop(p, "offset"), Num(DefaultOffset)))

deleteCall(userId) == _delete(userId)

updateCall(params) ==
  LET p == Default(params, Obj(NoProps))
  IN  IF ~Destructurable(p)
        THEN Throw("public", TypeError)
        ELSE _update(Prop(p, "userId"), Prop(p, "about"), Prop(p, "name"))

\* get without its return
getAwaited_dropped(v) == Resolved(Undefined)

\* return await this._get(id)
getAwaited(v) == Resolved(v)

\* return await this._create(name, about, docs)
createAwaited(v) == Resolved(v)

\* const response = await this._listItems(limit, offset); return response.items
listAwaited(response) ==
  IF ~Destructurable(response) THEN Thrown(TypeError)
  ELSE Resolved(Prop(response, "items"))

\* delete that returns what it awaited
deleteAwaited_passed(v) == Resolved(v)

\* await this._delete(userId); return null
deleteAwaited(v) == Resolved(Null)

\* return await this._update(userId, about, name)
updateAwaited(v) == Resolved(v)

\* the rest of the async method `op` once the promise p it awaits has settled
Awaited(op, p) ==
  IF p.kind = "rejected" THEN Thrown(p.value)
  ELSE CASE op = "get" -> getAwaited(p.value)
         [] op = "create" -> createAwaited(p.value)
         [] op = "list" -> listAwaited(p.value)
         [] op = "delete" -> deleteAwaited(p.value)
         [] op = "update" -> updateAwaited(p.value)

-----------------------------------------------------------------------------
\* Arguments the callers pass and outcomes the collaborator produces

ValidId1 == Str(<<"9","b","1","d","e","b","4","d","-","3","b","7","d","-","4","b","a","d","-","9","b","d","d","-","2","b","0","d","7","b","3","d","c","b","6","d">>)
ValidId2 == Str(<<"1","b","9","d","6","b","c","d","-","b","b","f","d","-","4","b","2","d","-","9","b","5","d","-","a","b","8","d","f","b","b","d","4","b","e","d">>)
Version1Id == Str(<<"6","b","a","7","b","8","1","0","-","9","d","a","d","-","1","1","d","1","-","8","0","b","4","-","0","0","c","0","4","f","d","4","3","0","c","8">>)
ShortId == Str(<<"1","2","3","4">>)

Ada == Str(<<"A","d","a">>)
AboutX == Str(<<"x">>)
NewBio == Str(<<"n","e","w"," ","b","i","o">>)
Doc1 == Obj([title |-> Str(<<"d","1">>)])
Doc2 == Obj([title |-> Str(<<"d","2">>)])

ValidIds == {ValidId1, ValidId2}
InvalidIds == {Version1Id, ShortId, Undefined}

GetIds == {ValidId1, ValidId2, Version1Id, Undefined}
DeleteIds == {ValidId1, ShortId, Undefined}
CreateParams ==
  {Undefined,
   Obj([name |-> Ada, about |-> AboutX]),
   Obj([name |-> Ada, about |-> AboutX, docs |-> Arr(<<Doc1, Doc2>>)])}
ListParams ==
  {Undefined, Obj([limit |-> Num(-1)]), Obj([offset |-> Num(5)])}
UpdateParams ==
  {Undefined,
   Obj([id |-> ValidId1, about |-> NewBio]),
   Obj([userId |-> ValidId1, about |-> NewBio]),
   Obj([userId |-> Version1Id, about |-> NewBio, name |-> Ada])}

Response1 == Obj([id |-> ValidId1])
Response2 == Obj([id |-> ValidId2])
Envelope1 ==
  Obj([items |-> Arr(<<Response1, Response2>>), limit |-> Num(100), offset |-> Num(0)])
Envelope2 ==
  Obj([items |-> Arr(<<>>), limit |-> Num(-1), offset |-> Num(5)])

\* what the collaborator's promise may resolve with, by method
Responses(method) ==
  CASE method = "listUsers" -> {Envelope1, Envelope2, Undefined}
    [] method = "deleteUser" -> {Undefined, Null, Response1}
    [] OTHER -> {Response1, Response2}

RemoteError == Err("remote")

\* what the collaborator's promise may reject with
Failures == {RemoteError}

-----------------------------------------------------------------------------
\* State: the manager's collaborator reference and the calls made so far

Init ==
  /\ apiClient = "apiClient"
  /\ calls = <<>>

Indexes == 1..Len(calls)

\* The entry of `calls` for a call of the public async method `op` with
\* argument `arg`, as it stands at the method's first await: `outcome` is
\* what the method's synchronous part does; the collaborator method, if
\* reached, returns a promise that is still pending
Started(op, arg, outcome) ==
  IF outcome.kind = "throw" THEN
    [op |-> op, arg |-> arg, invoked |-> <<>>, collab |-> Nothing,
     base |-> IF outcome.layer = "base" THEN Thrown(outcome.error) ELSE Nothing,
     result |-> asyncResult(Thrown(outcome.error))]
  ELSE
    [op |-> op, arg |-> arg,
     invoked |-> <<[client |-> apiClient, method |-> outcome.method,
                    args |-> outcome.args]>>,
     collab |-> Pending,
     base |-> Pending,
     result |-> asyncResult(Pending)]

get(id) ==
  /\ Len(calls) < MaxCalls
  /\ calls' = Append(calls, Started("get", id, getCall(id)))
  /\ UNCHANGED apiClient

create(params) ==
  /\ Len(calls) < MaxCalls
  /\ calls' = Append(calls, Started("create", params, createCall(params)))
  /\ UNCHANGED apiClient

list(params) ==
  /\ Len(calls) < MaxCalls
  /\ calls' = Append(calls, Started("list", params, listCall(params)))
  /\ UNCHANGED apiClient

\* delete without its await: null is returned while deleteUser is outstanding
delete_unawaited(userId) ==
  /\ Len(calls) < MaxCalls
  /\ LET call == Started("delete", userId, deleteCall(userId))
     IN  calls' = Append(calls,
           IF call.result.kind = "pending"
             THEN [call EXCEPT !.result = Resolved(Null)]
             ELSE call)
  /\ UNCHANGED apiClient

delete(userId) ==
  /\ Len(calls) < MaxCalls
  /\ calls' = Append(calls, Started("delete", userId, deleteCall(userId)))
  /\ UNCHANGED apiClient

update(params) ==
  /\ Len(calls) < MaxCalls
  /\ calls' = Append(calls, Started("update", params, updateCall(params)))
  /\ UNCHANGED apiClient

\* the collaborator's promise of some outstanding call is fulfilled
CollaboratorResolves ==
  \E c \in Indexes :
    /\ calls[c].collab.kind = "pending"
    /\ \E v \in Responses(calls[c].invoked[1].method) :
         calls' = [calls EXCEPT ![c].collab = Resolved(v)]
    /\ UNCHANGED apiClient

\* the collaborator's promise of some outstanding call is rejected
CollaboratorRejects ==
  \E c \in Indexes :
    /\ calls[c].collab.kind = "pending"
    /\ \E e \in Failures :
         calls' = [calls EXCEPT ![c].collab = Rejected(e)]
    /\ UNCHANGED apiClient

\* the promise reactions of call c run: the base method's catch handler,
\* then the rest of the async method that awaits it
Resume(c) ==
  /\ calls[c].collab.kind \in {"resolved", "rejected"}
  /\ calls[c].result.kind = "pending"
  /\ LET p == catch(calls[c].collab)
     IN  calls' = [calls EXCEPT ![c].base = p,
                                ![c].result = asyncResult(Awaited(calls[c].op, p))]
  /\ UNCHANGED apiClient

Resumes == \E c \in Indexes : Resume(c)

Next ==
  \/ \E id \in GetIds : get(id)
  \/ \E params \in CreateParams : create(params)
  \/ \E params \in ListParams : list(params)
  \/ \E userId \in DeleteIds : delete(userId)
  \/ \E params \in UpdateParams : update(params)
  \/ CollaboratorResolves
  \/ CollaboratorRejects
  \/ Resumes

Spec == Init /\ [][Next]_vars

\* The calls of delete and list alone, any number of them outstanding at
\* once, on an event loop that drains its promise job queue: a reaction that
\* is ready to run is run
DeleteListNext ==
  \/ \E params \in ListParams : list(params)
  \/ \E userId \in DeleteIds : delete(userId)
  \/ CollaboratorResolves
  \/ CollaboratorRejects
  \/ Resumes

DeleteListSpec == Init /\ [][DeleteListNext]_vars /\ WF_vars(Resumes)

-----------------------------------------------------------------------------
\* Vocabulary of the properties

Finished(call) == call.result.kind # "pending"

\* the identifier a call supplies: the argument of get and delete, the
\* userId property of update's parameter object (absent reads as undefined)
SuppliedId(call) ==
  IF call.op = "update"
    THEN IF call.arg = Undefined \/ "userId" \notin DOMAIN call.arg.props
           THEN Undefined
           ELSE call.arg.props.userId
    ELSE call.arg

Invocation(method, args) == [client |-> "apiClient", method |-> method, args |-> args]

UpdateById == Obj([id |-> ValidId1, about |-> NewBio])
UpdateByUserId == Obj([userId |-> ValidId1, about |-> NewBio])

-----------------------------------------------------------------------------
\* C1: get, delete and update given an identifier that is not a well-formed
\* version-4 UUID (an absent one included) fail with the invalid-identifier
\* error, and the call never invokes any collaborator method.
InvalidIdRejectedWithoutCollaborator ==
  \A c \in Indexes :
    (calls[c].op \in {"get", "delete", "update"} /\ SuppliedId(calls[c]) \in InvalidIds)
      => /\ calls[c].result = Rejected(InvalidIdError)
         /\ calls[c].invoked = <<>>
         /\ calls[c].collab = Nothing

InvalidIdRejectedReached ==
  /\ Len(calls) = 2
  /\ calls[1].op = "delete" /\ calls[1].arg = ShortId
  /\ calls[1].result = Rejected(InvalidIdError)
  /\ calls[2].op = "update" /\ SuppliedId(calls[2]) = Version1Id
  /\ calls[2].result = Rejected(InvalidIdError)

\* C2 as stated: update({id: validId, about: "new bio"}) invokes updateUser
\* exactly once with that identifier and {about: "new bio", name: undefined},
\* and resolves with what updateUser resolved with.
UpdateByIdKeyReachesCollaborator ==
  \A c \in Indexes :
    (calls[c].op = "update" /\ calls[c].arg = UpdateById)
      => /\ calls[c].invoked =
              <<Invocation("updateUser",
                           <<ValidId1, Obj([about |-> NewBio, name |-> Undefined])>>)>>
         /\ (calls[c].collab.kind = "resolved" /\ Finished(calls[c]))
              => calls[c].result = Resolved(calls[c].collab.value)

\* C2 amended: the identifier is read from the key userId.
\* update({userId: validId, about: "new bio"}) invokes updateUser exactly
\* once with that identifier and {about: "new bio", name: undefined} and
\* resolves with what updateUser resolved with; with the identifier under the
\* key id the call is rejected as an invalid identifier and updateUser is
\* not invoked.
UpdateByUserIdKeyReachesCollaborator ==
  \A c \in Indexes :
    /\ (calls[c].op = "update" /\ calls[c].arg = UpdateByUserId)
         => /\ calls[c].invoked =
                 <<Invocation("updateUser",
                              <<ValidId1, Obj([about |-> NewBio, name |-> Undefined])>>)>>
            /\ (calls[c].collab.kind = "resolved" /\ Finished(calls[c]))
                 => calls[c].result = Resolved(calls[c].collab.value)
    /\ (calls[c].op = "update" /\ calls[c].arg = UpdateById)
         => /\ calls[c].invoked = <<>>
            /\ calls[c].result = Rejected(InvalidIdError)

UpdateByUserIdResolved ==
  \E c \in Indexes :
    /\ calls[c].op = "update" /\ calls[c].arg = UpdateByUserId
    /\ calls[c].collab = Resolved(Response2)
    /\ calls[c].result = Resolved(Response2)

\* C3: a failure of the collaborator's operation reaches the caller of any
\* of the five operations as that same failure value, and the collaborator
\* method was invoked exactly once by the call (no retry, no replacement, no
\* success in its place).
CollaboratorFailurePropagated ==
  \A c \in Indexes :
    /\ Len(calls[c].invoked) <= 1
    /\ (calls[c].collab.kind = "rejected" /\ Finished(calls[c]))
         => /\ calls[c].result = Rejected(calls[c].collab.value)
            /\ Len(calls[c].invoked) = 1

CollaboratorFailureDelivered ==
  /\ Len(calls) = 2
  /\ calls[1].op = "list" /\ calls[2].op = "create"
  /\ \A c \in Indexes :
       /\ calls[c].collab = Rejected(RemoteError)
       /\ calls[c].result = Rejected(RemoteError)

\* C4: get with a valid identifier invokes getUser exactly once with that
\* identifier and resolves with exactly what getUser resolved with.
GetForwardsAndReturnsUser ==
  \A c \in Indexes :
    (calls[c].op = "get" /\ calls[c].arg \in ValidIds)
      => /\ calls[c].invoked = <<Invocation("getUser", <<calls[c].arg>>)>>
         /\ (calls[c].collab.kind = "resolved" /\ Finished(calls[c]))
              => calls[c].result = Resolved(calls[c].collab.value)

GetResolved ==
  \E c \in Indexes :
    /\ calls[c].op = "get" /\ calls[c].arg = ValidId2
    /\ calls[c].collab = Resolved(Response1)
    /\ calls[c].result = Resolved(Response1)

\* the pagination argument a list call supplies under `key`, or the
\* documented default when the call omits it
Supplied(params, key, default) ==
  IF params = Undefined \/ key \notin DOMAIN params.props
    THEN Num(default)
    ELSE params.props[key]

\* C5: list() invokes listUsers with limit 100 and offset 0; an omitted
\* limit or offset takes its default and a supplied one is forwarded as
\* given, unvalidated; the call resolves with the items sequence of the
\* envelope listUsers resolved with and nothing else.
ListDefaultsAndItems ==
  \A c \in Indexes :
    calls[c].op = "list"
      => /\ calls[c].invoked =
              <<Invocation("listUsers",
                           <<Supplied(calls[c].arg, "limit", 100),
                             Supplied(calls[c].arg, "offset", 0)>>)>>
         /\ calls[c].arg = Undefined
              => calls[c].invoked[1].args = <<Num(100), Num(0)>>
         /\ (calls[c].collab.kind = "resolved" /\ calls[c].collab.value # Undefined
               /\ Finished(calls[c]))
              => calls[c].result = Resolved(calls[c].collab.value.props.items)

ListItemsReturned ==
  /\ Len(calls) = 2
  /\ calls[1].op = "list" /\ calls[1].arg = Undefined
  /\ calls[1].collab = Resolved(Envelope1)
  /\ calls[1].result = Resolved(Arr(<<Response1, Response2>>))
  /\ calls[2].op = "list" /\ calls[2].arg = Obj([limit |-> Num(-1)])
  /\ calls[2].invoked[1].args = <<Num(-1), Num(0)>>
  /\ Finished(calls[2])

\* C6: delete with a valid identifier resolves with null whenever deleteUser
\* succeeds, whatever deleteUser resolved with.
DeleteResolvesNull ==
  \A c \in Indexes :
    (calls[c].op = "delete" /\ calls[c].arg \in ValidIds
       /\ calls[c].collab.kind = "resolved" /\ Finished(calls[c]))
      => calls[c].result = Resolved(Null)

DeleteOfNonNullResolvedNull ==
  \E c \in Indexes :
    /\ calls[c].op = "delete" /\ calls[c].arg = ValidId1
    /\ calls[c].collab = Resolved(Response1)
    /\ calls[c].result = Resolved(Null)

\* the documents a create call supplies (none when docs is omitted)
SuppliedDocs(params) ==
  IF "docs" \in DOMAIN params.props THEN params.props.docs.elems ELSE <<>>

\* C7: create({name, about, docs}) invokes createUser exactly once with the
\* given name and about and one prepared document per element of docs, in
\* order, each made from that element (none when docs is omitted); no
\* identifier is validated; the call resolves with what createUser resolved
\* with.
CreatePreparesDocsAndForwards ==
  \A c \in Indexes :
    (calls[c].op = "create" /\ calls[c].arg # Undefined)
      => /\ Len(calls[c].invoked) = 1
         /\ calls[c].invoked[1].method = "createUser"
         /\ Len(calls[c].invoked[1].args) = 1
         /\ LET payload == calls[c].invoked[1].args[1].props
                docs == SuppliedDocs(calls[c].arg)
            IN  /\ DOMAIN payload = {"name", "about", "docsPrepared"}
                /\ payload.name = calls[c].arg.props.name
                /\ payload.about = calls[c].arg.props.about
                /\ payload.docsPrepared.t = "array"
                /\ Len(payload.docsPrepared.elems) = Len(docs)
                /\ \A i \in 1..Len(docs) :
                     /\ payload.docsPrepared.elems[i].t = "CreateDoc"
                     /\ payload.docsPrepared.elems[i].doc = docs[i]
         /\ calls[c].base.kind # "thrown"
         /\ (calls[c].collab.kind = "resolved" /\ Finished(calls[c]))
              => calls[c].result = Resolved(calls[c].collab.value)

CreateWithTwoDocsResolved ==
  \E c \in Indexes :
    /\ calls[c].op = "create"
    /\ calls[c].arg # Undefined
    /\ Len(SuppliedDocs(calls[c].arg)) = 2
    /\ calls[c].collab = Resolved(Response1)
    /\ calls[c].result = Resolved(Response1)

Failed(call) ==
  \/ call.base.kind \in {"thrown", "rejected"}
  \/ call.result.kind \in {"thrown", "rejected"}

\* C8 as stated: no operation of either layer, base or public, ever lets a
\* failure leave the call as a synchronously thrown exception.
NoOperationThrowsSynchronously ==
  \A c \in Indexes :
    calls[c].base.kind # "thrown" /\ calls[c].result.kind # "thrown"

\* C8 amended: every failure of a public operation (get, create, list,
\* delete, update), the invalid-identifier failure included, is delivered as
\* a rejected asynchronous result and never thrown out of the call; the base
\* operations deliver a collaborator failure as a rejected result too, but
\* _get, _delete and _update throw the invalid-identifier error
\* synchronously to their caller.
PublicRejectsBaseThrowsInvalidId ==
  \A c \in Indexes :
    /\ calls[c].result.kind \in {"pending", "resolved", "rejected"}
    /\ (Failed(calls[c]) /\ Finished(calls[c])) => calls[c].result.kind = "rejected"
    /\ (calls[c].collab.kind = "rejected" /\ Finished(calls[c]))
         => calls[c].base = Rejected(calls[c].collab.value)
    /\ (calls[c].op \in {"get", "delete", "update"} /\ SuppliedId(calls[c]) \in InvalidIds)
         <=> calls[c].base.kind = "thrown"
    /\ calls[c].base.kind = "thrown" => calls[c].base.value = InvalidIdError

PublicRejectedBaseThrown ==
  /\ Len(calls) = 2
  /\ calls[1].op = "get" /\ calls[1].arg = Undefined
  /\ calls[1].base = Thrown(InvalidIdError)
  /\ calls[1].result = Rejected(InvalidIdError)
  /\ calls[2].op = "list"
  /\ calls[2].collab = Resolved(Undefined)
  /\ calls[2].base = Resolved(Undefined)
  /\ calls[2].result = Rejected(TypeError)

\* C9: the manager keeps no mutable state.  Its collaborator reference never
\* changes, and of any two calls, in any interleaving, those with the same
\* operation and arguments invoke the collaborator identically and, given the
\* same collaborator response, deliver the same result: nothing a call does
\* depends on another call.
CallsIndependent ==
  \A c \in Indexes : \A d \in Indexes :
    (calls[c].op = calls[d].op /\ calls[c].arg = calls[d].arg)
      => /\ calls[c].invoked = calls[d].invoked
         /\ (calls[c].collab = calls[d].collab
               /\ Finished(calls[c]) /\ Finished(calls[d]))
              => /\ calls[c].result = calls[d].result
                 /\ calls[c].base = calls[d].base

ManagerStateless ==
  /\ [][apiClient' = apiClient]_vars
  /\ [](apiClient = "apiClient")
  /\ []CallsIndependent

SameCallTwiceOutstanding ==
  /\ Len(calls) = 2
  /\ calls[1].op = "get" /\ calls[2].op = "get"
  /\ calls[1].arg = ValidId1 /\ calls[2].arg = ValidId1
  /\ calls[1].result = Resolved(Response2)
  /\ calls[2].collab = Rejected(RemoteError)
  /\ calls[2].result.kind = "pending"

\* C10: delete and list deliver their result only after the collaborator's
\* operation has completed: neither resolves unless deleteUser / listUsers
\* has resolved (so delete never resolves while deleteUser is pending or
\* after it rejected), and once the collaborator's operation has completed
\* the public call eventually completes.
DeleteAndListAwaitCollaborator ==
  /\ [](\A c \in Indexes :
          (calls[c].op \in {"delete", "list"} /\ calls[c].result.kind = "resolved")
            => calls[c].collab.kind = "resolved")
  /\ \A c \in 1..MaxCalls :
       (c \in Indexes /\ calls[c].op \in {"delete", "list"}
          /\ calls[c].collab.kind \in {"resolved", "rejected"})
         ~> (c \in Indexes /\ Finished(calls[c]))

DeleteRejectedListSettled ==
  /\ Len(calls) = 2
  /\ calls[1].op = "delete"
  /\ calls[1].collab = Rejected(RemoteError)
  /\ calls[1].result = Rejected(RemoteError)
  /\ calls[2].op = "list"
  /\ calls[2].collab = Resolved(Envelope2)
  /\ calls[2].result.kind = "pending"

====
